---- MODULE Spec2Model ----
(***************************************************************************)
(* Model of llvm/lib/CodeGen/AsmAnalysis.cpp: the pre-emit ASM analysis    *)
(* pass.  reportLoop (the loop density reporter) is modelled as a stack    *)
(* machine, one frame per active call; the code that follows the early     *)
(* `return false` of runOnMachineFunction (the fetch-group walk) is        *)
(* modelled as a second machine started at that code's first statement.    *)
(***************************************************************************)
EXTENDS Integers, Sequences, FiniteSets, TLC

\* ------------------------------------------------------------------ bounds
MaxLoops == 4
MaxBody == 2
MaxTerm == 2
MaxLatches == 2
MaxInsts == 21
MaxFGBlocks == 3

\* ------------------------------------------------------- program constants
MW == 10
FGCapacity == 16

VARIABLES
  blocks,      \* MachineBasicBlock -> its instructions, in block order
  loops,       \* MachineLoop -> [header, latches, subLoops]
  topLevel,    \* MachineLoopInfo: the top-level loops, in iteration order
  pc,          \* position of runOnMachineFunction
  li,          \* iterator of `for (auto *L: MLI)`
  stack,       \* the active reportLoop calls, innermost last
  out,         \* the remarks handed to ORE.emit, in order
  spans,       \* history: one entry per completed reportLoop call
  succs,       \* MachineBasicBlock -> successor list (fetch-group walk)
  bsize,       \* MachineBasicBlock -> MachineBasicBlock::size()
  bi,          \* iterator of `for (MachineBasicBlock &MBB : MF)`
  Curr, Size, Seen, NumFGs, Sizes,
  walks        \* history: per fetch group, the blocks added to Size, in order

vars == <<blocks, loops, topLevel, pc, li, stack, out, spans,
          succs, bsize, bi, Curr, Size, Seen, NumFGs, Sizes, walks>>

loopVars == <<blocks, loops, topLevel>>
fgVars == <<succs, bsize, bi, Curr, Size, Seen, NumFGs, Sizes, walks>>

\* ------------------------------------------------------------ instructions
\* An instruction is one of six kinds; the pass reads four properties of it.
Kinds == {"DBG", "PROBE", "MI", "MI_loc", "TERM", "TERM_loc"}

isDebugInstr(k) == k = "DBG"
isPseudoProbe(k) == k = "PROBE"
isTerminator(k) == k \in {"TERM", "TERM_loc"}
hasDebugLoc(k) == k \in {"DBG", "PROBE", "MI_loc", "TERM_loc"}

NoMI == <<>>
NoLoc == <<>>
NoBlock == <<>>

\* MachineInstr::getDebugLoc of the instruction at MI = <<block, index>>
getDebugLoc(MI) == IF hasDebugLoc(blocks[MI[1]][MI[2]]) THEN MI ELSE NoLoc

\* MachineBasicBlock::getFirstTerminator: terminators() runs from it to end()
getFirstTerminator(B) ==
  LET T == {i \in 1..Len(blocks[B]) : isTerminator(blocks[B][i])}
  IN IF T = {} THEN Len(blocks[B]) + 1
     ELSE CHOOSE i \in T : \A j \in T : i <= j

\* ------------------------------------------------------------------- loops
getHeader(L) == loops[L].header

getLoopLatch(L) ==
  IF Len(loops[L].latches) >= 1 THEN loops[L].latches[1] ELSE NoBlock

RECURSIVE LoopBlocks(_)
LoopBlocks(L) ==
  {loops[L].header} \cup {loops[L].latches[j] : j \in 1..Len(loops[L].latches)}
    \cup UNION {LoopBlocks(loops[L].subLoops[c]) : c \in 1..Len(loops[L].subLoops)}

getNumBlocks(L) == Cardinality(LoopBlocks(L))

\* -------------------------------------------------------------- reportLoop
\* HeaderScan, skipping debug instructions only
RECURSIVE HeaderScanCountsProbes(_, _, _, _)
HeaderScanCountsProbes(B, i, AnchorMI, numInsts) ==
  IF i > Len(blocks[B]) THEN [AnchorMI |-> AnchorMI, numInsts |-> numInsts]
  ELSE IF isDebugInstr(blocks[B][i])
       THEN HeaderScanCountsProbes(B, i + 1, AnchorMI, numInsts)
       ELSE HeaderScanCountsProbes(B, i + 1,
                                   IF AnchorMI = NoMI THEN <<B, i>> ELSE AnchorMI,
                                   numInsts + 1)

\* lines 72-80: the scan of the header, from instruction i on
RECURSIVE HeaderScan(_, _, _, _)
HeaderScan(B, i, AnchorMI, numInsts) ==
  IF i > Len(blocks[B]) THEN [AnchorMI |-> AnchorMI, numInsts |-> numInsts]
  ELSE IF isDebugInstr(blocks[B][i]) \/ isPseudoProbe(blocks[B][i])
       THEN HeaderScan(B, i + 1, AnchorMI, numInsts)
       ELSE HeaderScan(B, i + 1,
                       IF AnchorMI = NoMI THEN <<B, i>> ELSE AnchorMI,
                       numInsts + 1)

\* lines 83-88: the scan of the latch's terminators, from instruction i on
RECURSIVE TermScan(_, _, _)
TermScan(B, i, AnchorMI) ==
  IF i > Len(blocks[B]) THEN AnchorMI
  ELSE IF getDebugLoc(<<B, i>>) # NoLoc THEN <<B, i>>
       ELSE TermScan(B, i + 1, AnchorMI)

\* LatchAnchor, keeping an anchor the header scan found
LatchAnchorIfNone(L, AnchorMI) ==
  IF AnchorMI = NoMI /\ getLoopLatch(L) # NoBlock
  THEN TermScan(getLoopLatch(L), getFirstTerminator(getLoopLatch(L)), AnchorMI)
  ELSE AnchorMI

\* lines 82-89
LatchAnchor(L, AnchorMI) ==
  IF getLoopLatch(L) # NoBlock
  THEN TermScan(getLoopLatch(L), getFirstTerminator(getLoopLatch(L)), AnchorMI)
  ELSE AnchorMI

\* Bubbles without the test for an exact multiple
BubblesNoGuard(numInsts) == MW - (numInsts % MW)

\* line 101
Bubbles(numInsts) ==
  IF numInsts % MW # 0 THEN MW - (numInsts % MW) ELSE 0

\* LoopRemark, counting the records of the sub-loop calls as sub-loops
LoopRemarkCountsEmitted(f) ==
  [Name        |-> "LoopInfo2",
   Anchor      |-> f.AnchorMI,
   DL          |-> getDebugLoc(f.AnchorMI),
   Header      |-> getHeader(f.L),
   NumBlocks   |-> getNumBlocks(f.L),
   NumInsts    |-> f.numInsts,
   Bubbles     |-> Bubbles(f.numInsts),
   NumSubLoops |-> Len(out) - f.first + 1]

\* lines 96-102: the remark built for frame f
LoopRemark(f) ==
  [Name        |-> "LoopInfo2",
   Anchor      |-> f.AnchorMI,
   DL          |-> getDebugLoc(f.AnchorMI),
   Header      |-> getHeader(f.L),
   NumBlocks   |-> getNumBlocks(f.L),
   NumInsts    |-> f.numInsts,
   Bubbles     |-> Bubbles(f.numInsts),
   NumSubLoops |-> f.numSubLoops]

\* lines 59-65: entry of reportLoop(L, NestLevel)
NewFrame(L, NestLevel) ==
  [L |-> L, NestLevel |-> NestLevel, AnchorMI |-> NoMI, numInsts |-> 0,
   numSubLoops |-> 0, si |-> 1, at |-> "subloops", first |-> Len(out) + 1]

Top == stack[Len(stack)]
SetTop(f) == [stack EXCEPT ![Len(stack)] = f]

\* SubLoopAt, iterating the sub-loops backwards
SubLoopAtReversed(L, si) == loops[L].subLoops[Len(loops[L].subLoops) - si + 1]

\* the sub-loop the iterator of line 67 stands on
SubLoopAt(L, si) == loops[L].subLoops[si]

\* lines 67-70, one iteration: count the sub-loop and call reportLoop on it
SubLoopCall ==
  /\ pc = "loops" /\ stack # <<>> /\ Top.at = "subloops"
  /\ Top.si <= Len(loops[Top.L].subLoops)
  /\ stack' = Append(SetTop([Top EXCEPT !.numSubLoops = @ + 1, !.si = @ + 1]),
                     NewFrame(SubLoopAt(Top.L, Top.si), Top.NestLevel + 1))
  /\ UNCHANGED <<loopVars, pc, li, out, spans, fgVars>>

\* lines 72-80, entered when the loop of line 67 is exhausted
ScanHeader ==
  /\ pc = "loops" /\ stack # <<>> /\ Top.at = "subloops"
  /\ Top.si > Len(loops[Top.L].subLoops)
  /\ LET r == HeaderScan(getHeader(Top.L), 1, Top.AnchorMI, Top.numInsts)
     IN stack' = SetTop([Top EXCEPT !.AnchorMI = r.AnchorMI,
                                    !.numInsts = r.numInsts,
                                    !.at = "latch"])
  /\ UNCHANGED <<loopVars, pc, li, out, spans, fgVars>>

\* lines 82-89
ScanLatch ==
  /\ pc = "loops" /\ stack # <<>> /\ Top.at = "latch"
  /\ stack' = SetTop([Top EXCEPT !.AnchorMI = LatchAnchor(Top.L, Top.AnchorMI),
                                 !.at = "emit"])
  /\ UNCHANGED <<loopVars, pc, li, out, spans, fgVars>>

\* ShouldEmit, asking for an anchor that has a source location
ShouldEmitLocated(f) == f.AnchorMI # NoMI /\ getDebugLoc(f.AnchorMI) # NoLoc

\* line 95
ShouldEmit(f) == f.AnchorMI # NoMI

\* lines 95-105: emit the remark if there is an anchor, and return
EmitReturn ==
  /\ pc = "loops" /\ stack # <<>> /\ Top.at = "emit"
  /\ out' = IF ShouldEmit(Top) THEN Append(out, LoopRemark(Top)) ELSE out
  /\ spans' = Append(spans, [L |-> Top.L, NestLevel |-> Top.NestLevel,
                             first |-> Top.first, last |-> Len(out')])
  /\ stack' = SubSeq(stack, 1, Len(stack) - 1)
  /\ UNCHANGED <<loopVars, pc, li, fgVars>>

\* ---------------------------------------------------- runOnMachineFunction
\* lines 115-117, one iteration
RunCall ==
  /\ pc = "loops" /\ stack = <<>> /\ li <= Len(topLevel)
  /\ stack' = <<NewFrame(topLevel[li], 0)>>
  /\ li' = li + 1
  /\ UNCHANGED <<loopVars, pc, out, spans, fgVars>>

\* RunReturn without the `return false` of line 118: the code below it runs
\* and emits the function's "AsmA" remark
RunFallThrough ==
  /\ pc = "loops" /\ stack = <<>> /\ li > Len(topLevel)
  /\ pc' = "done"
  /\ out' = Append(out, [Name |-> "AsmA"])
  /\ UNCHANGED <<loopVars, li, stack, spans, fgVars>>

\* line 118
RunReturn ==
  /\ pc = "loops" /\ stack = <<>> /\ li > Len(topLevel)
  /\ pc' = "done"
  /\ UNCHANGED <<loopVars, li, stack, out, spans, fgVars>>

\* --------------------------------- lines 120-163: the fetch-group statements
Last(q) == q[Len(q)]

\* MachineBasicBlock::predecessors, derived from the successor lists
Preds(B) == {P \in DOMAIN succs : \E j \in DOMAIN succs[P] : succs[P][j] = B}

\* IsAbsorbed, testing the number of predecessors only
IsAbsorbedAnySinglePred(B) == Cardinality(Preds(B)) = 1

\* lines 123-124: B has one predecessor and is its last-listed successor
IsAbsorbed(B) ==
  /\ Cardinality(Preds(B)) = 1
  /\ Last(succs[CHOOSE P \in Preds(B) : TRUE]) = B

\* line 151: divideCeil
divideCeil(a, b) == (a + b - 1) \div b

\* lines 122-127: a block that starts no fetch group
FGSkip ==
  /\ pc = "fg_for" /\ bi <= Len(succs)
  /\ IsAbsorbed(bi)
  /\ bi' = bi + 1
  /\ UNCHANGED <<loopVars, pc, li, stack, out, spans,
                 succs, bsize, Curr, Size, Seen, NumFGs, Sizes, walks>>

\* lines 122-133: a block that starts a fetch group
FGStart ==
  /\ pc = "fg_for" /\ bi <= Len(succs)
  /\ ~IsAbsorbed(bi)
  /\ Curr' = bi /\ Size' = 0 /\ Seen' = {}
  /\ walks' = Append(walks, <<>>)
  /\ pc' = "fg_while"
  /\ UNCHANGED <<loopVars, li, stack, out, spans, succs, bsize, bi, NumFGs, Sizes>>

\* FGWalk, adding the block to Size before looking it up in Seen
FGWalkCountsBeforeCheck ==
  /\ pc = "fg_while"
  /\ Size' = Size + bsize[Curr]
  /\ walks' = [walks EXCEPT ![Len(walks)] = Append(@, Curr)]
  /\ IF Curr \in Seen
     THEN /\ pc' = "fg_sum"
          /\ UNCHANGED <<Curr, Seen>>
     ELSE /\ Seen' = Seen \cup {Curr}
          /\ IF Len(succs[Curr]) = 0
             THEN pc' = "fg_sum" /\ UNCHANGED Curr
             ELSE pc' = "fg_while" /\ Curr' = Last(succs[Curr])
  /\ UNCHANGED <<loopVars, li, stack, out, spans, succs, bsize, bi, NumFGs, Sizes>>

\* lines 134-149: one iteration of `while (true)`
FGWalk ==
  /\ pc = "fg_while"
  /\ IF Curr \in Seen
     THEN /\ pc' = "fg_sum"
          /\ UNCHANGED <<Curr, Size, Seen, walks>>
     ELSE /\ Seen' = Seen \cup {Curr}
          /\ Size' = Size + bsize[Curr]
          /\ walks' = [walks EXCEPT ![Len(walks)] = Append(@, Curr)]
          /\ IF Len(succs[Curr]) = 0
             THEN pc' = "fg_sum" /\ UNCHANGED Curr
             ELSE pc' = "fg_while" /\ Curr' = Last(succs[Curr])
  /\ UNCHANGED <<loopVars, li, stack, out, spans, succs, bsize, bi, NumFGs, Sizes>>

\* lines 150-153: the group is added to the totals; next block
FGSum ==
  /\ pc = "fg_sum"
  /\ NumFGs' = NumFGs + divideCeil(Size, FGCapacity)
  /\ Sizes' = Sizes + Size
  /\ bi' = bi + 1
  /\ pc' = "fg_for"
  /\ UNCHANGED <<loopVars, li, stack, out, spans, succs, bsize, Curr, Size, Seen, walks>>

\* lines 155-163: AvgSize = Sizes / NumFGs (NaN when both are 0) is emitted
FGEmit ==
  /\ pc = "fg_for" /\ bi > Len(succs)
  /\ out' = Append(out, [Name |-> "AsmA", AverageSize |-> <<Sizes, NumFGs>>])
  /\ pc' = "done"
  /\ UNCHANGED <<loopVars, li, stack, spans, fgVars>>

FGNext == FGSkip \/ FGStart \/ FGWalk \/ FGSum \/ FGEmit

Next == SubLoopCall \/ ScanHeader \/ ScanLatch \/ EmitReturn \/ RunCall \/ RunReturn

\* ------------------------------------------------------------------ inputs
SeqsUpTo(S, n) == UNION {[1..k -> S] : k \in 0..n}

RECURSIVE SetToSeq(_)
SetToSeq(S) ==
  IF S = {} THEN <<>>
  ELSE LET m == CHOOSE x \in S : \A y \in S : x <= y
       IN <<m>> \o SetToSeq(S \ {m})

\* Loop forests of n loops, numbered in pre-order: p[i] is the parent of loop
\* i (0 for a top-level loop) and lies on the path from loop i-1 to its root.
RECURSIVE AncSelf(_, _)
AncSelf(p, i) == {i} \cup (IF p[i] = 0 THEN {} ELSE AncSelf(p, p[i]))

ParentMaps(n) ==
  {p \in [1..n -> 0..n] :
     \A i \in 1..n : /\ p[i] < i
                     /\ i > 1 => (p[i] = 0 \/ p[i] \in AncSelf(p, i - 1))}

\* Header blocks: every short mix of debug, pseudo-probe and real
\* instructions, and long blocks of n real instructions after a DBG_VALUE.
LongHeader(n) == [i \in 1..(n + 1) |-> IF i = 1 THEN "DBG" ELSE "MI_loc"]

Bodies ==
  SeqsUpTo({"DBG", "PROBE", "MI", "MI_loc"}, MaxBody)
    \cup {LongHeader(n) : n \in (MaxBody + 1)..MaxInsts}

TermSeqs == SeqsUpTo({"TERM", "TERM_loc"}, MaxTerm)

\* Latch blocks after the first one: each ends in a located terminator.
Extra(k) == [j \in 1..k |-> <<"TERM_loc">>]

\* A loop's blocks: its header, whether the header is its own (first) latch,
\* and its other latch blocks in order.
WideConfigs ==
  {[hdr |-> b, self |-> FALSE, others |-> <<>>] : b \in Bodies}
    \cup {[hdr |-> b \o t, self |-> TRUE, others |-> Extra(k)] :
            b \in Bodies, t \in TermSeqs, k \in 0..(MaxLatches - 1)}
    \cup {[hdr |-> b, self |-> FALSE, others |-> <<<<"MI">> \o t>> \o Extra(k)] :
            b \in Bodies, t \in TermSeqs, k \in 0..(MaxLatches - 1)}

LoopKinds ==
  {[hdr |-> <<"DBG", "MI", "MI_loc">>, self |-> FALSE, others |-> <<>>],
   [hdr |-> <<"DBG", "PROBE">>, self |-> FALSE, others |-> <<>>],
   [hdr |-> <<"MI">>, self |-> FALSE, others |-> <<<<"MI", "TERM", "TERM_loc">>>>]}

MakeLoops(n, p, cfg) ==
  [i \in 1..n |->
     [header   |-> <<i, 0>>,
      latches  |-> (IF cfg[i].self THEN <<<<i, 0>>>> ELSE <<>>)
                     \o [j \in 1..Len(cfg[i].others) |-> <<i, j>>],
      subLoops |-> SetToSeq({c \in 1..n : p[c] = i})]]

MakeBlocks(n, cfg) ==
  [b \in {c \in (1..n) \X (0..MaxLatches) : c[2] <= Len(cfg[c[1]].others)} |->
     IF b[2] = 0 THEN cfg[b[1]].hdr ELSE cfg[b[1]].others[b[2]]]

\* The state at the entry of runOnMachineFunction (line 110)
Start(n, p, cfg) ==
  /\ blocks = MakeBlocks(n, cfg)
  /\ loops = MakeLoops(n, p, cfg)
  /\ topLevel = SetToSeq({c \in 1..n : p[c] = 0})
  /\ pc = "loops" /\ li = 1 /\ stack = <<>> /\ out = <<>> /\ spans = <<>>
  /\ succs = <<>> /\ bsize = <<>> /\ bi = 0 /\ Curr = 0 /\ Size = 0
  /\ Seen = {} /\ NumFGs = 0 /\ Sizes = 0 /\ walks = <<>>

Init ==
  \E n \in 0..MaxLoops : \E p \in ParentMaps(n) :
    \E cfg \in [1..n -> LoopKinds] : Start(n, p, cfg)

Spec == Init /\ [][Next]_vars

\* One outer loop of a fixed kind around one inner loop of any shape
ScanInit ==
  \E outer \in LoopKinds : \E inner \in WideConfigs :
    Start(2, <<0, 1>>, <<outer, inner>>)

ScanSpec == ScanInit /\ [][Next]_vars

\* Successor lists: no block listed twice, and none lists the entry block.
\* The code reads the last-listed successor and the number of predecessors
\* only, so the successors before the last are listed in ascending order.
DupFree(q) == \A i, j \in DOMAIN q : i # j => q[i] # q[j]

SuccLists(n) ==
  {q \in SeqsUpTo(2..n, n - 1) :
     /\ DupFree(q)
     /\ \A i, j \in 1..(Len(q) - 1) : i < j => q[i] < q[j]}

\* the blocks reachable from the blocks of S
RECURSIVE Closure(_, _)
Closure(S, sc) ==
  LET T == S \cup UNION {{sc[b][j] : j \in DOMAIN sc[b]} : b \in S}
  IN IF T = S THEN S ELSE Closure(T, sc)

\* Instruction counts per block: one instruction in every block, or an
\* empty entry block and 5^(b-2) instructions in block b (a sum of these
\* tells how often each block was counted).
SizeVectors(n) ==
  {[b \in 1..n |-> 1], [b \in 1..n |-> IF b = 1 THEN 0 ELSE 5 ^ (b - 2)]}

\* The state at line 120, were it reached
FGStartState(sc, sz) ==
  /\ succs = sc /\ bsize = sz
  /\ bi = 1 /\ Curr = 0 /\ Size = 0 /\ Seen = {} /\ NumFGs = 0 /\ Sizes = 0
  /\ walks = <<>>
  /\ pc = "fg_for" /\ li = 1 /\ stack = <<>> /\ out = <<>> /\ spans = <<>>
  /\ blocks = <<>> /\ loops = <<>> /\ topLevel = <<>>

\* Functions of up to MaxFGBlocks blocks, block 1 the entry block, every
\* block reachable from it
FGInit ==
  \E n \in 1..MaxFGBlocks : \E sc \in [1..n -> SuccLists(n)] :
    \E sz \in SizeVectors(n) :
      /\ Closure({1}, sc) = 1..n
      /\ FGStartState(sc, sz)

\* The pass is one sequential computation: it keeps taking steps.
FGSpec == FGInit /\ [][FGNext]_vars /\ WF_vars(FGNext)

\* ------------------------------------------------- vocabulary of the claims
LoopIds == DOMAIN loops

RECURSIVE Subtree(_)
Subtree(L) ==
  {L} \cup UNION {Subtree(loops[L].subLoops[c]) : c \in 1..Len(loops[L].subLoops)}

RECURSIVE PostOrder(_)
RECURSIVE PostOrderAll(_)
PostOrder(L) == PostOrderAll(loops[L].subLoops) \o <<L>>
PostOrderAll(Ls) ==
  IF Ls = <<>> THEN <<>> ELSE PostOrder(Head(Ls)) \o PostOrderAll(Tail(Ls))

Least(S) == CHOOSE x \in S : \A y \in S : x <= y

\* the instructions of block B that are neither debug nor pseudo-probe
Qualifying(B) ==
  {i \in DOMAIN blocks[B] : blocks[B][i] \notin {"DBG", "PROBE"}}

\* the terminators of block B that carry a source location
LocatedTerms(B) == {i \in DOMAIN blocks[B] : blocks[B][i] = "TERM_loc"}

LatchOverrides(L) ==
  /\ loops[L].latches # <<>>
  /\ LocatedTerms(loops[L].latches[1]) # {}

HasAnchor(L) == Qualifying(loops[L].header) # {} \/ LatchOverrides(L)

LoopOf(r) == CHOOSE L \in LoopIds : loops[L].header = r.Header

SpanOf(L) == spans[CHOOSE k \in DOMAIN spans : spans[k].L = L]

Emitted(s) == s.last - s.first + 1

\* ---------------------------------------------------------------------- C1
\* C1 (as stated): every call report(L, n) emits exactly N records, N = 1 +
\* the number of loops transitively nested inside L, whatever the blocks hold.
C1_ExactlyN ==
  \A k \in DOMAIN spans :
    Emitted(spans[k]) = Cardinality(Subtree(spans[k].L))

\* C1 (amended): every call report(L, n) emits exactly one record for each
\* loop among L and its descendants that has an anchor (a header instruction
\* that is neither debug nor pseudo-probe, or a located terminator in its
\* latch), hence at most N records, and N when all of them have an anchor.
C1_OnePerAnchoredLoop ==
  \A k \in DOMAIN spans :
    LET T == Subtree(spans[k].L)
    IN /\ Emitted(spans[k]) = Cardinality({M \in T : HasAnchor(M)})
       /\ Emitted(spans[k]) <= Cardinality(T)
       /\ (\A M \in T : HasAnchor(M)) => Emitted(spans[k]) = Cardinality(T)

C1_Witness ==
  \E k \in DOMAIN spans :
    /\ Cardinality(Subtree(spans[k].L)) >= 3
    /\ Emitted(spans[k]) >= 1
    /\ Emitted(spans[k]) < Cardinality(Subtree(spans[k].L))

\* ---------------------------------------------------------------------- C2
\* C2: the records of a call report(L, n) are the records of its first
\* child's call, then those of its second child's call, and so on in the
\* child enumeration order, each a contiguous run holding only records of
\* that child's subtree, and L's own record (if any) comes last.
C2_BottomUp ==
  \A k \in DOMAIN spans :
    LET s == spans[k]
        C == loops[s.L].subLoops
        endKids == IF C = <<>> THEN s.first - 1 ELSE SpanOf(C[Len(C)]).last
    IN /\ \A j \in DOMAIN C :
            /\ \E m \in 1..(k - 1) : spans[m].L = C[j]
            /\ SpanOf(C[j]).first =
                 (IF j = 1 THEN s.first ELSE SpanOf(C[j - 1]).last + 1)
            /\ \A q \in SpanOf(C[j]).first..SpanOf(C[j]).last :
                 LoopOf(out[q]) \in Subtree(C[j])
       /\ s.last - endKids \in {0, 1}
       /\ s.last - endKids = 1 => out[s.last].Header = loops[s.L].header
       /\ \A q \in s.first..endKids : LoopOf(out[q]) \in Subtree(s.L) \ {s.L}

C2_Witness ==
  \E k \in DOMAIN spans :
    LET C == loops[spans[k].L].subLoops
    IN /\ Len(C) >= 2
       /\ \A j \in DOMAIN C : Emitted(SpanOf(C[j])) >= 1
       /\ \E j \in DOMAIN C : Emitted(SpanOf(C[j])) >= 2
       /\ out[spans[k].last].Header = loops[spans[k].L].header

\* ---------------------------------------------------------------------- C5
\* C5: a loop without anchor emits no record, and nothing else depends on
\* it: when the pass is done the records are those of the loops that have an
\* anchor, in post-order of the forest, and each record holds its own loop's
\* block count, header instruction count and number of direct sub-loops
\* (sub-loops without anchor included).
C5_SkipIsLocal ==
  pc = "done" =>
    LET exp == SelectSeq(PostOrderAll(topLevel), HasAnchor)
    IN /\ Len(out) = Len(exp)
       /\ \A q \in DOMAIN out :
            /\ out[q].Header = loops[exp[q]].header
            /\ out[q].NumSubLoops = Len(loops[exp[q]].subLoops)
            /\ out[q].NumInsts = Cardinality(Qualifying(loops[exp[q]].header))
            /\ out[q].NumBlocks = Cardinality(LoopBlocks(exp[q]))

\* a loop without anchor that has a parent, a sibling and a child with records
C5_Witness ==
  /\ pc = "done"
  /\ \E P, X, S, D \in LoopIds :
       /\ ~HasAnchor(X) /\ HasAnchor(P) /\ HasAnchor(S) /\ HasAnchor(D)
       /\ loops[P].subLoops = <<X, S>>
       /\ loops[X].subLoops = <<D>>
       /\ \E q \in DOMAIN out :
            out[q].Header = loops[P].header /\ out[q].NumSubLoops = 2

\* ---------------------------------------------------------------------- C7
\* C7: one run calls report(L, 0) once per top-level loop, in the order of
\* the loop forest, and returns: the records are the concatenation of those
\* calls' records, the fetch-group code has not run, and no function-level
\* "AsmA" record is ever emitted.
C7_OnlyLoopRecords ==
  /\ \A q \in DOMAIN out : out[q].Name = "LoopInfo2"
  /\ NumFGs = 0 /\ Sizes = 0 /\ walks = <<>> /\ bi = 0
  /\ pc = "done" =>
       LET T == SelectSeq(spans, LAMBDA s : s.NestLevel = 0)
       IN /\ Len(T) = Len(topLevel)
          /\ \A j \in DOMAIN T :
               /\ T[j].L = topLevel[j]
               /\ T[j].first = (IF j = 1 THEN 1 ELSE T[j - 1].last + 1)
          /\ Len(out) = (IF T = <<>> THEN 0 ELSE T[Len(T)].last)

C7_Witness ==
  /\ pc = "done" /\ Len(topLevel) >= 2
  /\ \A k \in DOMAIN spans : spans[k].NestLevel = 0 => Emitted(spans[k]) >= 1
  /\ \E k \in DOMAIN spans : spans[k].NestLevel = 0 /\ Emitted(spans[k]) >= 2

C4_Bubbles ==
  \A q \in DOMAIN out :
    LET n == out[q].NumInsts
        b == out[q].Bubbles
    IN /\ (n > 0 /\ n % 10 = 0) => b = 0
       /\ (n > 0 /\ n % 10 # 0) => (b = 10 - (n % 10) /\ 0 < b /\ b < 10)
       /\ (n + b) % 10 = 0
       /\ n = 0 => b = 0

C4_Witness ==
  \E q, r \in DOMAIN out :
    /\ out[q].NumInsts = 20 /\ out[q].Bubbles = 0
    /\ out[r].NumInsts % 10 # 0

C10_AnchorHasDebugLoc ==
  \A q \in DOMAIN out :
    LET L == LoopOf(out[q])
        H == loops[L].header
        Located == {i \in Qualifying(H) : blocks[H][i] \in {"MI_loc", "TERM_loc"}}
    IN /\ out[q].DL # NoLoc
       /\ ~LatchOverrides(L) =>
            /\ Located # {}
            /\ out[q].Anchor = <<H, Least(Located)>>

\* ---------------------------------------------------------------------- C8
FGBlocks == DOMAIN succs

SeqSet(q) == {q[i] : i \in DOMAIN q}

RECURSIVE SumOver(_, _)
SumOver(S, f) ==
  IF S = {} THEN 0
  ELSE LET x == CHOOSE y \in S : TRUE IN f[x] + SumOver(S \ {x}, f)

RECURSIVE SumSeq(_)
SumSeq(q) == IF q = <<>> THEN 0 ELSE Head(q) + SumSeq(Tail(q))

TotalInsts == SumOver(FGBlocks, bsize)

\* the walks that count block b
WalksOf(b) == {k \in DOMAIN walks : b \in SeqSet(walks[k])}

\* the blocks on the path of last-listed successors from b
RECURSIVE Orbit(_)
Orbit(S) ==
  LET T == S \cup {Last(succs[b]) : b \in {c \in S : succs[c] # <<>>}}
  IN IF T = S THEN S ELSE Orbit(T)

GroupStarts ==
  {b \in FGBlocks :
     ~(\E P \in FGBlocks : Preds(b) = {P} /\ Last(succs[P]) = b)}

\* C8 (as stated): every block is walked by exactly one chain walk, so the
\* accumulated Sizes is the function's instruction count.
C8_Partition ==
  pc = "done" =>
    /\ \A b \in FGBlocks : Cardinality(WalksOf(b)) = 1
    /\ Sizes = TotalInsts

\* C8 (amended): in a function whose blocks are all reachable from an entry
\* block without predecessors, one chain walk starts at every block that is
\* not the last-listed successor of its only predecessor, and at no other;
\* it counts the blocks on the path of last-listed successors from its start;
\* every block is counted by at least one walk (an absorbed block by every
\* walk that counts its predecessor) and a block several paths reach by each
\* of them, so Sizes is the sum of the walks' sizes, at least the function's
\* instruction count, and equal to it exactly when no block is counted twice.
C8_ChainsCoverBlocks ==
  pc = "done" =>
    /\ Len(walks) = Cardinality(GroupStarts)
    /\ \A k \in DOMAIN walks :
         /\ walks[k][1] \in GroupStarts
         /\ \A m \in DOMAIN walks : m < k => walks[m][1] < walks[k][1]
         /\ SeqSet(walks[k]) = Orbit({walks[k][1]})
    /\ \A b \in FGBlocks : WalksOf(b) # {}
    /\ \A b \in FGBlocks \ GroupStarts :
         \A P \in Preds(b) : WalksOf(P) \subseteq WalksOf(b)
    /\ Sizes = SumSeq([k \in DOMAIN walks |-> SumOver(Orbit({walks[k][1]}), bsize)])
    /\ Sizes >= TotalInsts
    /\ (\A b \in FGBlocks : Cardinality(WalksOf(b)) = 1) => Sizes = TotalInsts

\* a block counted by two walks, an absorbed block, and Sizes above the
\* function's instruction count
C8_Witness ==
  /\ pc = "done"
  /\ \E b \in FGBlocks : Cardinality(WalksOf(b)) >= 2
  /\ FGBlocks \ GroupStarts # {}
  /\ Sizes > TotalInsts

\* ---------------------------------------------------------------------- C9
\* the walk in progress or just ended
ThisWalk == walks[Len(walks)]

C9_WalkShape ==
  /\ \A k \in DOMAIN walks :
       LET w == walks[k]
       IN /\ \A i, j \in DOMAIN w : i # j => w[i] # w[j]
          /\ \A i \in DOMAIN w :
               i < Len(w) => succs[w[i]] # <<>> /\ w[i + 1] = Last(succs[w[i]])
  /\ pc \in {"fg_while", "fg_sum"} =>
       /\ Size = SumSeq([i \in DOMAIN ThisWalk |-> bsize[ThisWalk[i]]])
       /\ Seen = SeqSet(ThisWalk)
  /\ pc = "fg_sum" =>
       /\ ThisWalk # <<>>
       /\ \/ succs[Last(ThisWalk)] = <<>>
          \/ Last(succs[Last(ThisWalk)]) \in SeqSet(ThisWalk)
       /\ (succs[ThisWalk[1]] # <<>> /\ Last(succs[ThisWalk[1]]) = ThisWalk[1])
            => ThisWalk = <<ThisWalk[1]>>

\* C9: every chain walk terminates (the pass reaches its end on every CFG,
\* self-loops and cycles included); a walk never counts a block twice, it
\* follows last-listed successors and ends at the first block that is
\* already in its visited set or has no successors, and a walk started at a
\* block whose last-listed successor is itself counts that block once.
C9_WalkTerminates == []C9_WalkShape /\ <>(pc = "done")

\* a walk that ran into a cycle it had entered two blocks earlier
C9_Witness ==
  /\ pc = "fg_sum"
  /\ Len(ThisWalk) >= 3
  /\ Curr \in Seen
  /\ Curr # ThisWalk[1]

====
